---- MODULE Spec2Model ----
(***************************************************************************)
(* gate-lite: the PKCE login/callback flow (api/oauth_routes.py,           *)
(* api/pkce.py), the client-credentials broker (api/gate_m2m.py), the      *)
(* bearer verifier (api/token_verify.py) and the /oauth2 proxy             *)
(* (api/main.py), as state machines.                                       *)
(*                                                                         *)
(* Strings are sequences of atoms.  In the PKCE part an atom is one        *)
(* character; in the broker and the proxy an atom is a run of characters   *)
(* that the operations on it never cut (a scope word, one blank, a URL     *)
(* part), so that split, join, startswith and replace are computed on the  *)
(* sequence as Python computes them on the characters.                     *)
(***************************************************************************)
EXTENDS Integers, Sequences, FiniteSets, TLC

\* ------------------------------------------------------------------ bounds
NumThreads == 2
MaxLogins == 2
MaxCallbacks == 2
MaxClock == 2

Threads == 1..NumThreads

\* Python's None, and the empty option
None == <<>>
Some(x) == <<x>>

\* ------------------------------------------------------------ api/pkce.py
\* base64 alphabets, index 1..64 for the sextets 0..63
StdAlphabet ==
    <<"A","B","C","D","E","F","G","H","I","J","K","L","M",
      "N","O","P","Q","R","S","T","U","V","W","X","Y","Z",
      "a","b","c","d","e","f","g","h","i","j","k","l","m",
      "n","o","p","q","r","s","t","u","v","w","x","y","z",
      "0","1","2","3","4","5","6","7","8","9","+","/">>

\* base64.b64encode on one group of 1, 2 or 3 bytes: 4 characters, "=" padded
B64Group(g) ==
    LET b1 == g[1]
        b2 == IF Len(g) >= 2 THEN g[2] ELSE 0
        b3 == IF Len(g) >= 3 THEN g[3] ELSE 0
        c1 == StdAlphabet[(b1 \div 4) + 1]
        c2 == StdAlphabet[((b1 % 4) * 16 + (b2 \div 16)) + 1]
        c3 == StdAlphabet[((b2 % 16) * 4 + (b3 \div 64)) + 1]
        c4 == StdAlphabet[(b3 % 64) + 1]
    IN  IF Len(g) = 1 THEN <<c1, c2, "=", "=">>
        ELSE IF Len(g) = 2 THEN <<c1, c2, c3, "=">>
        ELSE <<c1, c2, c3, c4>>

RECURSIVE b64encode(_)
b64encode(data) ==
    IF Len(data) = 0 THEN <<>>
    ELSE IF Len(data) <= 3 THEN B64Group(data)
    ELSE B64Group(SubSeq(data, 1, 3)) \o b64encode(SubSeq(data, 4, Len(data)))

\* base64.urlsafe_b64encode: b64encode, then "+" -> "-" and "/" -> "_"
urlsafe_b64encode(data) ==
    LET s == b64encode(data)
    IN  [i \in 1..Len(s) |->
            IF s[i] = "+" THEN "-" ELSE IF s[i] = "/" THEN "_" ELSE s[i]]

\* bytes.rstrip(b"=")
RECURSIVE rstrip_eq(_)
rstrip_eq(s) ==
    IF Len(s) > 0 /\ s[Len(s)] = "="
    THEN rstrip_eq(SubSeq(s, 1, Len(s) - 1))
    ELSE s

\* an encoder that keeps the "=" padding
b64url_padded(data) == urlsafe_b64encode(data)

\* _b64url
b64url(data) == rstrip_eq(urlsafe_b64encode(data))

\* secrets.token_bytes(nbytes): the byte strings the random source is taken
\* to produce, nbytes long, one per seed
Seeds == {0, 101}
token_bytes(nbytes) ==
    {[i \in 1..nbytes |-> (seed + 37 * i) % 256] : seed \in Seeds}

VerifierBytes == 32
StateBytes == 16

new_code_verifier(nbytes) == {b64url(r) : r \in token_bytes(nbytes)}

\* str.encode("ascii") on the characters b64url produces
AsciiCode(ch) ==
    IF ch = "-" THEN 45
    ELSE IF ch = "_" THEN 95
    ELSE IF ch = "=" THEN 61
    ELSE LET k == CHOOSE j \in 1..64 : StdAlphabet[j] = ch
         IN  IF k <= 26 THEN 64 + k
             ELSE IF k <= 52 THEN 96 + (k - 26)
             ELSE IF k <= 62 THEN 47 + (k - 52)
             ELSE IF k = 63 THEN 43 ELSE 47

encode_ascii(s) == [i \in 1..Len(s) |-> AsciiCode(s[i])]

\* hashlib.sha256(...).digest(): 32 bytes that are a function of the message.
\* The compression function is the library's; its place is taken by a
\* position-weighted checksum spread over the 32 digest bytes.
RECURSIVE WeightedSum(_, _)
WeightedSum(msg, i) ==
    IF i > Len(msg) THEN 0
    ELSE (msg[i] * (i + 1) + WeightedSum(msg, i + 1)) % 65521

DigestLen == 32
sha256(msg) ==
    LET w == WeightedSum(msg, 1)
    IN  [i \in 1..DigestLen |-> (w * (2 * i + 1) + 131 * i + Len(msg)) % 256]

to_code_challenge_s256(verifier) == b64url(sha256(encode_ascii(verifier)))

\* ------------------------------------------------------ api/oauth_routes.py
VARIABLES
    _STATE,       \* _STATE: state token -> <<verifier, created>>
    clock,        \* time, in half seconds
    redirect,     \* the last login redirect: its URL and query parameters
    loginCount,   \* logins served
    issued,       \* per state token, the logins that issued it
    minted,       \* per state token, the verifiers of the logins that
                  \* issued it since a callback last obtained its entry
    consumed,     \* per state token, the callbacks that obtained its verifier
    cbPc,         \* per thread, where its oauth_callback stands
    cbReq,        \* per thread, the callback's code and state
    cbSt,         \* per thread, what _pop_state returned
    cbPosted,     \* per thread, whether the call posted to the token endpoint
    cbData,       \* per thread, the post: the form fields and auth
    cbResp,       \* per thread, what the token endpoint did with the post
    cbOut,        \* per thread, the response of its last finished call
    cbCount       \* callbacks started

VARIABLES
    rfPc,         \* per thread, where its oauth_refresh stands
    rfReq,        \* per thread, the refresh_token parameter
    rfData,       \* per thread, the post: the form fields and auth
    rfPosts,      \* per thread, posts the call made to the token endpoint
    rfResp,       \* per thread, what the token endpoint did with the post
    rfOut         \* per thread, the response of its call

VARIABLES
    gateApiKey,   \* GATE_API_KEY, "" when unset
    clientsEnv,   \* GATE_CLIENTS_JSON in the process environment, parsed
    clientsFile,  \* what the file at GATE_CLIENTS_FILE holds, parsed
    m2mPc,        \* where the broker call stands
    m2mReq,       \* the validated request body and the X-API-Key header
    m2mData,      \* the form posted to the token endpoint
    m2mPosts,     \* posts the call made to the token endpoint
    m2mResp,      \* what the token endpoint did with the post
    m2mOut        \* the response of the last finished call

VARIABLES
    jwksCache,    \* the lru_cache entry of _load_jwks: None or the key set
    jwksUpstream, \* the key set the JWKS endpoint serves
    jwksFetched,  \* the key set the last successful httpx.get returned
    vb,           \* per thread, its verify_bearer call
    vCount        \* verify_bearer calls started

VARIABLES
    pxPc,         \* where the proxy call stands
    pxReq,        \* the inbound request
    pxSent,       \* the request sent upstream
    pxResp,       \* the upstream response
    pxOut         \* the response returned to the caller

pkceVars == <<_STATE, redirect, loginCount, issued, minted, consumed,
              cbPc, cbReq, cbSt, cbPosted, cbData, cbResp, cbOut, cbCount>>
m2mVars == <<gateApiKey, clientsEnv, clientsFile, m2mPc, m2mReq, m2mData, m2mPosts, m2mResp, m2mOut>>
verVars == <<jwksCache, jwksUpstream, jwksFetched, vb, vCount>>
pxVars == <<pxPc, pxReq, pxSent, pxResp, pxOut>>
rfVars == <<rfPc, rfReq, rfData, rfPosts, rfResp, rfOut>>
vars == <<pkceVars, clock, m2mVars, verVars, pxVars, rfVars>>

\* state = new_code_verifier(16), code_verifier = new_code_verifier()
StateTokens == new_code_verifier(StateBytes)
Verifiers == new_code_verifier(VerifierBytes)
\* code_challenge = to_code_challenge_s256(code_verifier), per verifier
CodeChallenges == [v \in Verifiers |-> to_code_challenge_s256(v)]
\* a state value no login ever issued
ForgedState == <<"f", "o", "r", "g", "e", "d">>
CallbackStates == StateTokens \cup {ForgedState}
Codes == {"code1", "code2"}

CLIENT_ID == "gate-client"
\* OAUTH_CLIENT_SECRET, unset
CLIENT_SECRET == None
\* settings.HYDRA_PUBLIC_URL, as a sequence of URL parts
HYDRA_PUBLIC_URL == <<"http://", "hydra", ":4444">>
REDIRECT_URI == "http://localhost:3000/callback"
SCOPE == "openid offline"

\* _save_state: _STATE[state] = (verifier, time.time())
_save_state(store, state, verifier, now) ==
    [s \in (DOMAIN store) \cup {state} |->
        IF s = state THEN <<verifier, now>> ELSE store[s]]

\* a lookup that leaves the entry in place: _STATE.get(state)
_pop_state_peek(store, state) ==
    [value |-> IF state \in DOMAIN store THEN Some(store[state]) ELSE None,
     store |-> store]

\* _pop_state: _STATE.pop(state, None), the value returned and the store left
_pop_state(store, state) ==
    [value |-> IF state \in DOMAIN store THEN Some(store[state]) ELSE None,
     store |-> [s \in (DOMAIN store) \ {state} |-> store[s]]]

\* GET /gate/oauth/login; time.time() in _save_state reads a later time
\* than the login before it did
oauth_login ==
    /\ loginCount < MaxLogins
    /\ clock < MaxClock
    /\ clock' = clock + 1
    /\ \E code_verifier \in Verifiers, state \in StateTokens :
         LET code_challenge == CodeChallenges[code_verifier]
         IN  /\ _STATE' = _save_state(_STATE, state, code_verifier, clock')
             /\ redirect' = Some([url |-> HYDRA_PUBLIC_URL
                                          \o <<"/oauth2", "/auth">>,
                                  status_code |-> 302,
                                  client_id |-> CLIENT_ID,
                                  response_type |-> "code",
                                  redirect_uri |-> REDIRECT_URI,
                                  scope |-> SCOPE,
                                  state |-> state,
                                  code_challenge |-> code_challenge,
                                  code_challenge_method |-> "S256"])
             /\ issued' = [issued EXCEPT ![state] = @ + 1]
             /\ minted' = [minted EXCEPT ![state] = @ \cup {code_verifier}]
    /\ loginCount' = loginCount + 1
    /\ UNCHANGED <<consumed, cbPc, cbReq, cbSt, cbPosted, cbData, cbResp,
                   cbOut, cbCount>>

\* GET /gate/oauth/callback, up to the state check; the pool hands the
\* request to its first idle worker (the workers are interchangeable)
oauth_callback_pop(t) ==
    /\ cbPc[t] = "idle"
    /\ cbCount < MaxCallbacks
    /\ \A u \in Threads : u < t => cbPc[u] # "idle"
    /\ \E code \in Codes, state \in CallbackStates :
         LET popped == _pop_state(_STATE, state)
             st == popped.value
         IN  /\ _STATE' = popped.store
             /\ cbReq' = [cbReq EXCEPT ![t] = Some([code |-> code, state |-> state])]
             /\ cbSt' = [cbSt EXCEPT ![t] = st]
             /\ cbPosted' = [cbPosted EXCEPT ![t] = FALSE]
             /\ cbData' = [cbData EXCEPT ![t] = None]
             /\ cbResp' = [cbResp EXCEPT ![t] = None]
             /\ IF st = None
                THEN /\ cbPc' = [cbPc EXCEPT ![t] = "done"]
                     /\ cbOut' = [cbOut EXCEPT ![t] =
                            Some([status |-> 400,
                                  detail |-> "Invalid or expired state",
                                  body |-> ""])]
                     /\ UNCHANGED <<consumed, minted>>
                ELSE /\ cbPc' = [cbPc EXCEPT ![t] = "popped"]
                     /\ cbOut' = [cbOut EXCEPT ![t] = None]
                     /\ consumed' = [consumed EXCEPT ![state] = @ + 1]
                     /\ minted' = [minted EXCEPT ![state] = {}]
    /\ cbCount' = cbCount + 1
    /\ UNCHANGED <<redirect, loginCount, issued>>

\* auth = (CLIENT_ID, CLIENT_SECRET) if CLIENT_SECRET else None
basic_auth(client_id, client_secret) ==
    IF client_secret # None /\ client_secret # Some("")
    THEN Some(<<client_id, client_secret[1]>>)
    ELSE None

\* client.post(.../oauth2/token, data=data, auth=auth)
oauth_callback_post(t) ==
    /\ cbPc[t] = "popped"
    /\ cbPc' = [cbPc EXCEPT ![t] = "posted"]
    /\ cbPosted' = [cbPosted EXCEPT ![t] = TRUE]
    /\ cbData' = [cbData EXCEPT ![t] =
            Some([grant_type |-> "authorization_code",
                  code |-> cbReq[t][1].code,
                  redirect_uri |-> REDIRECT_URI,
                  client_id |-> CLIENT_ID,
                  code_verifier |-> cbSt[t][1][1],
                  auth |-> basic_auth(CLIENT_ID, CLIENT_SECRET)])]
    /\ UNCHANGED <<_STATE, redirect, loginCount, issued, minted, consumed,
                   cbReq, cbSt, cbResp, cbOut, cbCount>>

\* what the token endpoint does with a post: it answers with a token
\* payload, it answers with an HTTP error status and a body, or the post
\* fails at the network level (httpx.RequestError) with the error's text
UpstreamErrors == {[status |-> 400, body |-> "invalid_grant"],
                   [status |-> 500, body |-> "server_error"],
                   [status |-> 502, body |-> "bad gateway"]}
UpstreamAnswers ==
    {[kind |-> "ok", status |-> 200, body |-> "token_payload"]}
    \cup {[kind |-> "error", status |-> e.status, body |-> e.body] :
             e \in UpstreamErrors}
    \cup {[kind |-> "unreachable", status |-> 0, body |-> "timed out"]}

\* what a handler that lets an exception escape sends: Starlette's 500
Unhandled ==
    [status |-> 500, detail |-> "Internal Server Error", body |-> ""]

\* oauth_callback after the post: resp.json(), the HTTPException raised on
\* HTTPStatusError, or the httpx.RequestError that escapes
callback_result(data, answer) ==
    IF answer.kind = "ok"
    THEN [status |-> 200, detail |-> "", body |-> answer.body]
    ELSE IF answer.kind = "error"
    THEN [status |-> 400, detail |-> "Token exchange failed: ",
          body |-> answer.body]
    ELSE Unhandled

\* a callback that puts the popped entry back when the exchange fails
oauth_callback_response_restoring(t) ==
    /\ cbPc[t] = "posted"
    /\ cbPc' = [cbPc EXCEPT ![t] = "done"]
    /\ \E answer \in UpstreamAnswers :
         /\ cbResp' = [cbResp EXCEPT ![t] = Some(answer)]
         /\ cbOut' = [cbOut EXCEPT ![t] =
                         Some(callback_result(cbData[t][1], answer))]
         /\ _STATE' = IF answer.kind = "ok" THEN _STATE
                      ELSE _save_state(_STATE, cbReq[t][1].state,
                                       cbSt[t][1][1], cbSt[t][1][2])
    /\ cbReq' = [cbReq EXCEPT ![t] = None]
    /\ cbSt' = [cbSt EXCEPT ![t] = None]
    /\ cbPosted' = [cbPosted EXCEPT ![t] = FALSE]
    /\ cbData' = [cbData EXCEPT ![t] = None]
    /\ UNCHANGED <<redirect, loginCount, issued, minted, consumed, cbCount>>

\* resp.raise_for_status() and the return or raise: the handler's frame
\* (st, data) is gone, its response is on the way to the caller
oauth_callback_response(t) ==
    /\ cbPc[t] = "posted"
    /\ cbPc' = [cbPc EXCEPT ![t] = "done"]
    /\ \E answer \in UpstreamAnswers :
         /\ cbResp' = [cbResp EXCEPT ![t] = Some(answer)]
         /\ cbOut' = [cbOut EXCEPT ![t] =
                         Some(callback_result(cbData[t][1], answer))]
    /\ cbReq' = [cbReq EXCEPT ![t] = None]
    /\ cbSt' = [cbSt EXCEPT ![t] = None]
    /\ cbPosted' = [cbPosted EXCEPT ![t] = FALSE]
    /\ cbData' = [cbData EXCEPT ![t] = None]
    /\ UNCHANGED <<_STATE, redirect, loginCount, issued, minted, consumed, cbCount>>

\* the response has reached the caller; the worker is idle again
oauth_callback_return(t) ==
    /\ cbPc[t] = "done"
    /\ cbPc' = [cbPc EXCEPT ![t] = "idle"]
    /\ cbReq' = [cbReq EXCEPT ![t] = None]
    /\ cbSt' = [cbSt EXCEPT ![t] = None]
    /\ cbPosted' = [cbPosted EXCEPT ![t] = FALSE]
    /\ cbData' = [cbData EXCEPT ![t] = None]
    /\ cbResp' = [cbResp EXCEPT ![t] = None]
    /\ cbOut' = [cbOut EXCEPT ![t] = None]
    /\ UNCHANGED <<_STATE, redirect, loginCount, issued, minted, consumed, cbCount>>

\* time passes
Tick ==
    /\ clock < MaxClock
    /\ clock' = clock + 1

InitPkce ==
    /\ _STATE = [s \in {} |-> <<>>]
    /\ redirect = None
    /\ loginCount = 0
    /\ issued = [s \in CallbackStates |-> 0]
    /\ minted = [s \in CallbackStates |-> {}]
    /\ consumed = [s \in CallbackStates |-> 0]
    /\ cbPc = [t \in Threads |-> "idle"]
    /\ cbReq = [t \in Threads |-> None]
    /\ cbSt = [t \in Threads |-> None]
    /\ cbPosted = [t \in Threads |-> FALSE]
    /\ cbData = [t \in Threads |-> None]
    /\ cbResp = [t \in Threads |-> None]
    /\ cbOut = [t \in Threads |-> None]
    /\ cbCount = 0

\* oauth_refresh after the post: r.json(), or the exception of
\* r.raise_for_status() or of the post, which nothing catches
refresh_result(data, answer) ==
    IF answer.kind = "ok"
    THEN [status |-> 200, detail |-> "", body |-> answer.body]
    ELSE Unhandled

RefreshTokens == {"", "rt1", "rt2"}

\* POST /gate/oauth/refresh, to the post or the HTTPException before it
oauth_refresh(t) ==
    /\ rfPc[t] = "idle"
    /\ \E refresh_token \in RefreshTokens :
         /\ rfReq' = [rfReq EXCEPT ![t] = Some(refresh_token)]
         /\ rfResp' = [rfResp EXCEPT ![t] = None]
         /\ IF refresh_token = ""
            THEN /\ rfPc' = [rfPc EXCEPT ![t] = "done"]
                 /\ rfData' = [rfData EXCEPT ![t] = None]
                 /\ rfPosts' = [rfPosts EXCEPT ![t] = 0]
                 /\ rfOut' = [rfOut EXCEPT ![t] =
                        Some([status |-> 400,
                              detail |-> "Missing refresh_token",
                              body |-> ""])]
            ELSE /\ rfPc' = [rfPc EXCEPT ![t] = "posted"]
                 /\ rfData' = [rfData EXCEPT ![t] =
                        Some([grant_type |-> "refresh_token",
                              refresh_token |-> refresh_token,
                              client_id |-> CLIENT_ID,
                              auth |-> basic_auth(CLIENT_ID, CLIENT_SECRET)])]
                 /\ rfPosts' = [rfPosts EXCEPT ![t] = 1]
                 /\ rfOut' = [rfOut EXCEPT ![t] = None]

\* r.raise_for_status() and return r.json()
oauth_refresh_response(t) ==
    /\ rfPc[t] = "posted"
    /\ rfPc' = [rfPc EXCEPT ![t] = "done"]
    /\ \E answer \in UpstreamAnswers :
         /\ rfResp' = [rfResp EXCEPT ![t] = Some(answer)]
         /\ rfOut' = [rfOut EXCEPT ![t] =
                         Some(refresh_result(rfData[t][1], answer))]
    /\ UNCHANGED <<rfReq, rfData, rfPosts>>

\* the response has reached the caller; the worker is idle again
oauth_refresh_return(t) ==
    /\ rfPc[t] = "done"
    /\ rfPc' = [rfPc EXCEPT ![t] = "idle"]
    /\ rfReq' = [rfReq EXCEPT ![t] = None]
    /\ rfData' = [rfData EXCEPT ![t] = None]
    /\ rfPosts' = [rfPosts EXCEPT ![t] = 0]
    /\ rfResp' = [rfResp EXCEPT ![t] = None]
    /\ rfOut' = [rfOut EXCEPT ![t] = None]

InitRefresh ==
    /\ rfPc = [t \in Threads |-> "idle"]
    /\ rfReq = [t \in Threads |-> None]
    /\ rfData = [t \in Threads |-> None]
    /\ rfPosts = [t \in Threads |-> 0]
    /\ rfResp = [t \in Threads |-> None]
    /\ rfOut = [t \in Threads |-> None]

\* --------------------------------------------------------- api/gate_m2m.py
SP == " "

\* str.strip(), as pydantic's strip_whitespace applies it
RECURSIVE lstrip(_)
lstrip(s) == IF s # <<>> /\ Head(s) = SP THEN lstrip(Tail(s)) ELSE s

RECURSIVE rstrip(_)
rstrip(s) ==
    IF s # <<>> /\ s[Len(s)] = SP THEN rstrip(SubSeq(s, 1, Len(s) - 1)) ELSE s

strip(s) == rstrip(lstrip(s))

\* str.split(): the maximal runs of non-blank atoms, in order
RECURSIVE SplitFrom(_, _, _)
SplitFrom(s, cur, acc) ==
    IF s = <<>>
    THEN IF cur = <<>> THEN acc ELSE Append(acc, cur)
    ELSE IF Head(s) = SP
    THEN SplitFrom(Tail(s), <<>>, IF cur = <<>> THEN acc ELSE Append(acc, cur))
    ELSE SplitFrom(Tail(s), Append(cur, Head(s)), acc)

split(s) == SplitFrom(s, <<>>, <<>>)

\* sep.join(words)
RECURSIVE join(_, _)
join(sep, words) ==
    IF words = <<>> THEN <<>>
    ELSE IF Len(words) = 1 THEN words[1]
    ELSE words[1] \o sep \o join(sep, Tail(words))

\* the registry GATE_CLIENTS_JSON holds: a dict per logical client name
GATE_CLIENTS_JSON ==
    [sacred |-> [id |-> "sacred-id", secret |-> "sacred-secret",
                 allowed_scopes |-> << <<"read">>, <<"write">> >>,
                 default_scope |-> <<"read">>,
                 audience |-> "sacred-aud"],
     admin |-> [id |-> "admin-id", secret |-> "admin-secret",
                allowed_scopes |-> << <<"admin">> >>],
     ops |-> [id |-> "ops-id", secret |-> "ops-secret",
              allowed_scopes |-> << <<"write">>, <<"read">> >>,
              default_scope |-> <<"delete">>],
     open |-> [id |-> "open-id", secret |-> "open-secret",
               allowed_scopes |-> <<>>,
               default_scope |-> <<"read", SP, "write">>],
     bare |-> [id |-> "bare-id", secret |-> "bare-secret"],
     nosecret |-> [id |-> "nosecret-id",
                   allowed_scopes |-> << <<"read">> >>],
     empty |-> [k \in {} |-> ""]]

\* what the file holds after the secret was rotated
RotatedClients ==
    [sacred |-> [id |-> "sacred-id", secret |-> "rotated-secret",
                 allowed_scopes |-> << <<"read">> >>,
                 default_scope |-> <<"read">>]]

\* `if cfg:` on what a source gave: it is there and it is not empty
loaded(cfg) == cfg # None /\ DOMAIN cfg[1] # {}

\* load_client_registry returns rather than raising RuntimeError
registry_found == loaded(clientsEnv) \/ loaded(clientsFile)

\* load_client_registry(): the environment's JSON, else the file's, read
\* when it is called
load_client_registry ==
    IF loaded(clientsEnv) THEN clientsEnv[1] ELSE clientsFile[1]

\* dict.get(k) on an entry: the value, or what `or ""` / `or []` make of None
get_str(entry, k) == IF k \in DOMAIN entry THEN entry[k] ELSE ""
get_seq(entry, k) == IF k \in DOMAIN entry THEN entry[k] ELSE <<>>

ClientNames == (DOMAIN GATE_CLIENTS_JSON) \cup {"ghost"}

\* _auth_guard: TRUE when the call may proceed
_auth_guard(x_api_key, GATE_API_KEY) ==
    \/ GATE_API_KEY = ""
    \/ (x_api_key # "" /\ x_api_key = GATE_API_KEY)

\* M2MRequest: scope is None or a string, stripped, of at least one atom
M2MRequest(client, scope, audience) ==
    [valid |-> scope = None \/ strip(scope[1]) # <<>>,
     client |-> client,
     scope |-> IF scope = None THEN None ELSE Some(strip(scope[1])),
     audience |-> audience]

\* a clamp that lets every requested scope through
_clamp_scopes_none(requested, allowed) == requested

\* _clamp_scopes
_clamp_scopes(requested, allowed) ==
    IF requested = <<>> THEN <<>>
    ELSE LET allowed_set == {allowed[i] : i \in DOMAIN allowed}
         IN  SelectSeq(requested, LAMBDA sc : sc \in allowed_set)

\* a denial test that never denies
scopes_denied_never(final_scopes, allowed_scopes) == FALSE

\* `if not final_scopes and allowed_scopes`
scopes_denied(final_scopes, allowed_scopes) ==
    final_scopes = <<>> /\ allowed_scopes # <<>>

\* a lookup that falls back to the first client for an unknown name
registry_get_fallback(registry, client) ==
    IF client \in DOMAIN registry THEN Some(registry[client])
    ELSE Some(registry["sacred"])

\* registry.get(body.client): the entry, or None
registry_get(registry, client) ==
    IF client \in DOMAIN registry THEN Some(registry[client]) ELSE None

Failure(status, detail) ==
    [error |-> Some([status |-> status, detail |-> detail]), data |-> None]

\* broker_m2m_token up to the post: the HTTPException raised, or the form
broker_prepare(registry, body, x_api_key, GATE_API_KEY) ==
    IF ~_auth_guard(x_api_key, GATE_API_KEY)
    THEN Failure(401, "invalid gate api key")
    ELSE LET got == registry_get(registry, body.client)
         IN
    IF got = None \/ DOMAIN got[1] = {}
    THEN Failure(400, "unknown client")
    ELSE LET entry == got[1]
             client_id == get_str(entry, "id")
             client_secret == get_str(entry, "secret")
         IN
    IF client_id = "" \/ client_secret = ""
    THEN Failure(500, "client misconfigured (no id/secret)")
    ELSE LET allowed_scopes == get_seq(entry, "allowed_scopes")
             default_scope == get_seq(entry, "default_scope")
             req_scopes == split(IF body.scope # None THEN body.scope[1]
                                 ELSE default_scope)
             final_scopes == _clamp_scopes(req_scopes, allowed_scopes)
             aud == IF body.audience # "" THEN body.audience
                    ELSE get_str(entry, "audience")
         IN
    IF scopes_denied(final_scopes, allowed_scopes)
    THEN Failure(403, "requested scopes not allowed")
    ELSE [error |-> None,
          data |-> Some([grant_type |-> "client_credentials",
                         client_id |-> client_id,
                         client_secret |-> client_secret,
                         scope |-> IF final_scopes # <<>>
                                   THEN Some(join(<<SP>>, final_scopes))
                                   ELSE None,
                         audience |-> aud])]

MaxScopeLen == 4
ScopeAtoms == {"read", "delete", SP}
ScopeStrings ==
    (UNION {[1..n -> ScopeAtoms] : n \in 0..MaxScopeLen})
    \cup {<<"read", SP, "write", SP, "delete">>, <<"write", SP, "read">>,
          <<"anything">>, <<"admin">>, <<"read", "write">>}
ScopeInputs == {None} \cup {Some(s) : s \in ScopeStrings}
Audiences == {"", "req-aud"}
ApiKeys == {"", "key1", "key2"}

\* POST /gate/token, to the post or the HTTPException before it
broker_m2m_token ==
    /\ m2mPc = "idle"
    /\ \E client \in ClientNames, scope \in ScopeInputs,
          audience \in Audiences, x_api_key \in ApiKeys :
         LET body == M2MRequest(client, scope, audience)
             prep == broker_prepare(load_client_registry, body, x_api_key,
                                    gateApiKey)
         IN  /\ m2mReq' = Some([body |-> body, x_api_key |-> x_api_key])
             /\ m2mResp' = None
             /\ IF ~body.valid
                THEN /\ m2mOut' = Some([status |-> 422,
                                        detail |-> "validation error"])
                     /\ m2mData' = None
                     /\ m2mPosts' = 0
                     /\ m2mPc' = "done"
                ELSE IF _auth_guard(x_api_key, gateApiKey) /\ ~registry_found
                THEN /\ m2mOut' = Some([status |-> 500,
                                        detail |-> "Internal Server Error"])
                     /\ m2mData' = None
                     /\ m2mPosts' = 0
                     /\ m2mPc' = "done"
                ELSE IF prep.error # None
                THEN /\ m2mOut' = prep.error
                     /\ m2mData' = None
                     /\ m2mPosts' = 0
                     /\ m2mPc' = "done"
                ELSE /\ m2mOut' = None
                     /\ m2mData' = prep.data
                     /\ m2mPosts' = 1
                     /\ m2mPc' = "posted"
    /\ UNCHANGED <<gateApiKey, clientsEnv, clientsFile>>

\* a broker that answers every upstream rejection with 400
broker_result_flat(data, answer) ==
    IF answer.kind = "ok"
    THEN [status |-> 200, detail |-> answer.body]
    ELSE IF answer.kind = "error"
    THEN [status |-> 400, detail |-> answer.body]
    ELSE [status |-> 502, detail |-> "hydra unreachable: " \o answer.body]

\* a broker that reports a network failure as an upstream 502
broker_result_masked(data, answer) ==
    IF answer.kind = "ok"
    THEN [status |-> 200, detail |-> answer.body]
    ELSE IF answer.kind = "error"
    THEN [status |-> answer.status, detail |-> answer.body]
    ELSE [status |-> 502, detail |-> "bad gateway"]

\* a broker that puts the posted form's client secret into its 502 detail
broker_result_leaky(data, answer) ==
    IF answer.kind = "ok"
    THEN [status |-> 200, detail |-> answer.body]
    ELSE IF answer.kind = "error"
    THEN [status |-> answer.status, detail |-> answer.body]
    ELSE [status |-> 502, detail |-> "hydra unreachable: " \o data.client_secret]

\* broker_m2m_token after the post: r.json(), or the HTTPException raised
\* on HTTPStatusError or on any other httpx.HTTPError
broker_result(data, answer) ==
    IF answer.kind = "ok"
    THEN [status |-> 200, detail |-> answer.body]
    ELSE IF answer.kind = "error"
    THEN [status |-> answer.status, detail |-> answer.body]
    ELSE [status |-> 502, detail |-> "hydra unreachable: " \o answer.body]

\* the answer of the token endpoint: r.json(), HTTPStatusError or HTTPError
broker_m2m_response ==
    /\ m2mPc = "posted"
    /\ m2mPc' = "done"
    /\ \E answer \in UpstreamAnswers :
         /\ m2mResp' = Some(answer)
         /\ m2mOut' = Some(broker_result(m2mData[1], answer))
    /\ UNCHANGED <<gateApiKey, clientsEnv, clientsFile, m2mReq, m2mData,
                   m2mPosts>>

\* the response has gone to the caller; the call's locals are gone
broker_m2m_return ==
    /\ m2mPc = "done"
    /\ m2mPc' = "idle"
    /\ m2mReq' = None
    /\ m2mData' = None
    /\ m2mPosts' = 0
    /\ m2mResp' = None
    /\ m2mOut' = None
    /\ UNCHANGED <<gateApiKey, clientsEnv, clientsFile>>

\* the file at GATE_CLIENTS_FILE is replaced or removed while the process
\* runs (a mounted secret is rotated)
clients_file_replaced ==
    /\ clientsFile' \in {None, Some(GATE_CLIENTS_JSON), Some(RotatedClients)}
    /\ clientsFile' # clientsFile
    /\ UNCHANGED <<gateApiKey, clientsEnv, m2mPc, m2mReq, m2mData, m2mPosts,
                   m2mResp, m2mOut>>

\* the broker at rest
IdleM2M ==
    /\ m2mPc = "idle"
    /\ m2mReq = None
    /\ m2mData = None
    /\ m2mPosts = 0
    /\ m2mResp = None
    /\ m2mOut = None

InitM2M ==
    /\ gateApiKey \in {"", "key1"}
    /\ clientsEnv = Some(GATE_CLIENTS_JSON)
    /\ clientsFile = None
    /\ m2mPc = "idle"
    /\ m2mReq = None
    /\ m2mData = None
    /\ m2mPosts = 0
    /\ m2mResp = None
    /\ m2mOut = None

\* ----------------------------------------------------- api/token_verify.py
MaxVerifyCalls == 3
\* clock ticks per second: time.time() is clock / TicksPerSecond
TicksPerSecond == 2

ISSUER == "http://hydra-public:4444"
KeyIds == {"k1", "k2"}
\* the endpoint publishes k1, then k1 and the signer's new key k2
KeySets == <<{"k1"}, {"k1", "k2"}>>

\* a JWT: whether it parses, the key that signed it, its iss and exp claims
MalformedToken ==
    [wellformed |-> FALSE, key |-> "none", iss |-> "", exp |-> 0]
GoodToken(k) == [wellformed |-> TRUE, key |-> k, iss |-> ISSUER, exp |-> 9]
\* tokens signed with k1, one signed with the new key k2, one signed with
\* a key the endpoint never publishes, one that does not parse
Tokens ==
    [wellformed : {TRUE}, key : {"k1"},
     iss : {ISSUER, "http://other"}, exp : {0, 9}]
    \cup {GoodToken("k2"), GoodToken("kx"), MalformedToken}

\* the Authorization header: absent, or a scheme word, whether a blank
\* follows it, and the token after the blank if there is one
AuthHeaders ==
    {None}
    \cup {Some([scheme |-> "Bearer", sep |-> TRUE, token |-> Some(tk)]) :
            tk \in Tokens}
    \cup {Some([scheme |-> "bearer", sep |-> TRUE,
                token |-> Some(GoodToken("k1"))]),
          Some([scheme |-> "BEARER", sep |-> TRUE,
                token |-> Some(GoodToken("k1"))]),
          Some([scheme |-> "Basic", sep |-> TRUE,
                token |-> Some(GoodToken("k1"))]),
          Some([scheme |-> "Bearer", sep |-> TRUE, token |-> None]),
          Some([scheme |-> "Bearer", sep |-> FALSE, token |-> None]),
          Some([scheme |-> "", sep |-> FALSE, token |-> None])}

\* str.lower() on the scheme word
lower(word) ==
    IF word \in {"Bearer", "BEARER", "bearer"} THEN "bearer"
    ELSE IF word \in {"Basic", "basic"} THEN "basic"
    ELSE word

\* a header test that refuses only the absent header
missing_bearer_absent_only(authorization) == authorization = None

\* `not authorization or not authorization.lower().startswith("bearer ")`
missing_bearer(authorization) ==
    \/ authorization = None
    \/ ~(lower(authorization[1].scheme) = "bearer" /\ authorization[1].sep)

\* jose.jwt.decode(token, jwks, algorithms=["RS256"],
\* options={"verify_aud": False}): TRUE when it raises JWTError.  The
\* signature is tried against every key of the set; verify_exp is left at
\* its default, so exp < int(now) raises ExpiredSignatureError, a JWTError.
decode_raises(token, jwks, now) ==
    \/ ~token.wellformed
    \/ token.key \notin jwks
    \/ token.exp < now \div TicksPerSecond

\* verify_bearer after a decode that returned claims: issuer, then exp
claims_checks(token, now) ==
    IF token.iss # ISSUER
    THEN [status |-> 401, detail |-> "bad issuer", claims |-> None]
    ELSE IF token.exp * TicksPerSecond < now
    THEN [status |-> 401, detail |-> "expired", claims |-> None]
    ELSE [status |-> 200, detail |-> "", claims |-> Some(token)]

InvalidToken == [status |-> 401, detail |-> "invalid token", claims |-> None]

IdleCall ==
    [pc |-> "idle", auth |-> None, jwks |-> None, out |-> None,
     clears |-> 0, gets |-> 0, regets |-> 0, retries |-> 0,
     firstFailed |-> FALSE, stale |-> FALSE, sigOk |-> FALSE,
     served |-> FALSE, pastExp |-> FALSE, netFail |-> FALSE]

TokenOf(call) == call.auth[1].token[1]

\* what a decode leaves for the record: whether the signature verified
\* against the key set used and whether exp lay in the past
Decoded(call, jwks, now) ==
    [call EXCEPT !.sigOk = TokenOf(call).wellformed
                           /\ TokenOf(call).key \in jwks,
                 !.pastExp = TokenOf(call).exp * TicksPerSecond < now]

\* the first attempt's _decode and what follows it
first_decode(call, jwks, now) ==
    IF decode_raises(TokenOf(call), jwks, now)
    THEN [Decoded(call, jwks, now) EXCEPT
             !.pc = "clear", !.firstFailed = TRUE,
             !.stale = TokenOf(call).wellformed
                       /\ TokenOf(call).key \notin jwks]
    ELSE [Decoded(call, jwks, now) EXCEPT
             !.pc = "done",
             !.out = Some(claims_checks(TokenOf(call), now))]

\* the retry's _decode and what follows it
second_decode(call, jwks, now) ==
    IF decode_raises(TokenOf(call), jwks, now)
    THEN [Decoded(call, jwks, now) EXCEPT
             !.pc = "done", !.out = Some(InvalidToken)]
    ELSE [Decoded(call, jwks, now) EXCEPT
             !.pc = "done",
             !.out = Some(claims_checks(TokenOf(call), now))]

\* a cache that never has the key set
cache_hit_never(cache) == FALSE

\* the lookup lru_cache makes before it calls _load_jwks: a hit when the
\* entry is there, whatever its age
cache_hit(cache) == cache # None

\* verify_bearer: the header test, the token, the first _load_jwks lookup
verify_bearer_begin(t) ==
    /\ vb[t].pc = "idle"
    /\ vCount < MaxVerifyCalls
    /\ vCount' = vCount + 1
    /\ \E authorization \in AuthHeaders :
         LET call == [IdleCall EXCEPT !.auth = authorization]
         IN  vb' = [vb EXCEPT ![t] =
               IF missing_bearer(authorization)
               THEN [call EXCEPT !.pc = "done",
                        !.out = Some([status |-> 401,
                                      detail |-> "Missing bearer token",
                                      claims |-> None])]
               ELSE IF authorization[1].token = None
               THEN [call EXCEPT !.pc = "done",
                        !.out = Some([status |-> 500,
                                      detail |-> "Internal Server Error",
                                      claims |-> None])]
               ELSE LET started ==
                          [call EXCEPT !.served =
                              TokenOf(call).key \in jwksUpstream]
                    IN  IF cache_hit(jwksCache)
                        THEN first_decode(started, jwksCache[1], clock)
                        ELSE [started EXCEPT !.pc = "get1", !.gets = 1]]
    /\ UNCHANGED <<jwksCache, jwksUpstream, jwksFetched>>

\* httpx.get(JWKS_URL) inside _load_jwks: the endpoint's key set, or an error
jwks_get(t) ==
    /\ vb[t].pc \in {"get1", "get2"}
    /\ \/ /\ vb' = [vb EXCEPT ![t] =
                 [@ EXCEPT !.pc = IF @ = "get1" THEN "got1" ELSE "got2",
                           !.jwks = Some(jwksUpstream)]]
          /\ jwksFetched' = Some(jwksUpstream)
       \/ /\ vb' = [vb EXCEPT ![t] =
                 [@ EXCEPT !.pc = "done", !.netFail = TRUE,
                           !.out = Some(InvalidToken)]]
          /\ UNCHANGED jwksFetched
    /\ UNCHANGED <<jwksCache, jwksUpstream, vCount>>

\* lru_cache after the call: the result is stored unless the key is already
\* there, and returned; then _decode on it
jwks_store(t) ==
    /\ vb[t].pc \in {"got1", "got2"}
    /\ jwksCache' = IF jwksCache = None THEN vb[t].jwks ELSE jwksCache
    /\ vb' = [vb EXCEPT ![t] =
          IF vb[t].pc = "got1"
          THEN first_decode(vb[t], vb[t].jwks[1], clock)
          ELSE second_decode(vb[t], vb[t].jwks[1], clock)]
    /\ UNCHANGED <<jwksUpstream, jwksFetched, vCount>>

\* _load_jwks.cache_clear()
jwks_cache_clear(t) ==
    /\ vb[t].pc = "clear"
    /\ jwksCache' = None
    /\ vb' = [vb EXCEPT ![t] = [@ EXCEPT !.pc = "reload", !.clears = @ + 1]]
    /\ UNCHANGED <<jwksUpstream, jwksFetched, vCount>>

\* the retry's _load_jwks lookup
jwks_reload(t) ==
    /\ vb[t].pc = "reload"
    /\ LET call == [vb[t] EXCEPT !.retries = @ + 1]
       IN  vb' = [vb EXCEPT ![t] =
             IF cache_hit(jwksCache)
             THEN second_decode(call, jwksCache[1], clock)
             ELSE [call EXCEPT !.pc = "get2", !.gets = @ + 1,
                               !.regets = @ + 1]]
    /\ UNCHANGED <<jwksCache, jwksUpstream, jwksFetched, vCount>>

\* the response has gone to the caller; the call's locals are gone
verify_bearer_return(t) ==
    /\ vb[t].pc = "done"
    /\ vb' = [vb EXCEPT ![t] = IdleCall]
    /\ UNCHANGED <<jwksCache, jwksUpstream, jwksFetched, vCount>>

\* the signer rotates its keys: the endpoint serves the next key set
rotate_keys ==
    /\ \E i \in 1..(Len(KeySets) - 1) :
         /\ jwksUpstream = KeySets[i]
         /\ jwksUpstream' = KeySets[i + 1]
    /\ vb' = [t \in Threads |->
          IF vb[t].pc \in {"idle", "done"} \/ vb[t].auth = None
             \/ missing_bearer(vb[t].auth)
          THEN vb[t]
          ELSE [vb[t] EXCEPT !.served =
                   @ /\ TokenOf(vb[t]).key \in jwksUpstream']]
    /\ UNCHANGED <<jwksCache, jwksFetched, vCount>>

InitVerify ==
    /\ jwksCache = None
    /\ jwksUpstream = KeySets[1]
    /\ jwksFetched = None
    /\ vb = [t \in Threads |-> IdleCall]
    /\ vCount = 0

\* ------------------------------------------------------------- api/main.py
\* URL strings, as sequences of parts no operation below cuts
HydraInternal == <<"http://", "hydra", ":4444">>
LoginConsentInternal == <<"http://", "login-consent", ":3002">>
GateOauth2 == <<"http://", "localhost", ":8000", "/oauth2">>
GateAuthui == <<"http://", "localhost", ":8000", "/authui">>
\* settings.GATE_BASE_URL
GATE_BASE_URL == <<"http://", "localhost", ":8000">>

\* str.startswith
startswith(s, prefix) ==
    Len(s) >= Len(prefix) /\ SubSeq(s, 1, Len(prefix)) = prefix

\* str.replace: every occurrence, left to right, without overlap
RECURSIVE replace(_, _, _)
replace(s, old, new) ==
    IF Len(s) < Len(old) \/ s = <<>> THEN s
    ELSE IF SubSeq(s, 1, Len(old)) = old
    THEN new \o replace(SubSeq(s, Len(old) + 1, Len(s)), old, new)
    ELSE <<Head(s)>> \o replace(Tail(s), old, new)

\* the header names the request filter drops, and the response filter
RequestHopByHop ==
    {"host", "connection", "keep-alive", "proxy-authenticate",
     "proxy-authorization", "te", "trailer", "transfer-encoding", "upgrade"}
ResponseHopByHop ==
    {"connection", "keep-alive", "proxy-authenticate",
     "proxy-authorization", "te", "trailer", "transfer-encoding", "upgrade"}

\* str.lower() on a header name
header_lower(name) ==
    IF name = "Host" THEN "host"
    ELSE IF name = "Connection" THEN "connection"
    ELSE IF name = "Upgrade" THEN "upgrade"
    ELSE name

\* {k: v for k, v in headers.items() if k.lower() not in blocked}
filter_headers(headers, blocked) ==
    [k \in {h \in DOMAIN headers : header_lower(h) \notin blocked} |->
        headers[k]]

\* the Location rewriting of proxy_oauth2, on a non-empty value
rewrite_location(loc) ==
    LET loc1 == IF startswith(loc, HydraInternal)
                THEN replace(loc, HydraInternal, GateOauth2)
                ELSE loc
    IN  IF startswith(loc1, LoginConsentInternal)
        THEN replace(loc1, LoginConsentInternal, GateAuthui)
        ELSE loc1

\* out_headers of proxy_oauth2
oauth2_out_headers(resp_headers) ==
    LET out_headers == filter_headers(resp_headers, ResponseHopByHop)
    IN  IF "location" \in DOMAIN out_headers /\ out_headers["location"] # <<>>
        THEN [out_headers EXCEPT
                 !["location"] = rewrite_location(out_headers["location"])]
        ELSE out_headers

HeaderValue == <<"v">>
\* the body of an upstream response: the bytes on the wire are `data` in
\* the coding its Content-Encoding header names
ContentEncodings == {"identity", "gzip"}
Wire(encoding) == [encoding |-> encoding, data |-> "body"]

\* resp.content: httpx hands out the body decoded from its content coding
resp_content(wire) == [encoding |-> "identity", data |-> wire.data]

\* the headers of an upstream response
upstream_headers(rnames, location, encoding) ==
    [k \in rnames \cup (IF location = None THEN {} ELSE {"location"})
              \cup (IF encoding = "identity" THEN {}
                    ELSE {"content-encoding"}) |->
        IF k = "location" THEN location[1]
        ELSE IF k = "content-encoding" THEN <<encoding>>
        ELSE HeaderValue]
ReqHeaderNames == {"Host", "connection", "accept"}
RespHeaderNames == {"Connection", "upgrade", "content-type", "host"}
Locations ==
    {HydraInternal \o <<"/oauth2", "/auth", "?q">>,
     HydraInternal \o <<"/oauth2", "/auth", "?next=">> \o HydraInternal
        \o <<"/oauth2", "/auth">>,
     LoginConsentInternal \o <<"/login", "?q">>,
     <<"http://", "example.com", "/cb", "?q">>,
     <<"/oauth2", "/auth", "?q">>,
     <<>>}
Paths == {<<"auth">>, <<"token">>}
Methods == {"GET", "POST"}
Statuses == {200, 302}

\* /oauth2/{path}: forward, filter the headers, rewrite Location
proxy_oauth2 ==
    /\ pxPc = "idle"
    /\ \E method \in Methods, path \in Paths,
          names \in SUBSET ReqHeaderNames,
          rnames \in SUBSET RespHeaderNames,
          status \in Statuses, encoding \in ContentEncodings,
          location \in {None} \cup {Some(l) : l \in Locations} :
         LET req_headers == [k \in names |-> HeaderValue]
             fwd_headers == filter_headers(req_headers, RequestHopByHop)
             resp_headers == upstream_headers(rnames, location, encoding)
         IN  /\ pxReq' = Some([route |-> "oauth2", method |-> method,
                               path |-> path, headers |-> req_headers])
             /\ pxSent' = Some([method |-> method,
                                url |-> HydraInternal \o <<"/oauth2/">> \o path,
                                headers |-> fwd_headers,
                                follow_redirects |-> FALSE])
             /\ pxResp' = Some([status_code |-> status,
                                headers |-> resp_headers,
                                content |-> Wire(encoding)])
             /\ pxOut' = Some([status_code |-> status,
                               headers |-> oauth2_out_headers(resp_headers),
                               content |-> resp_content(Wire(encoding))])
    /\ pxPc' = "done"

\* the response has gone to the caller; the call's locals are gone
proxy_oauth2_return ==
    /\ pxPc = "done"
    /\ pxReq[1].route = "oauth2"
    /\ pxPc' = "idle"
    /\ pxReq' = None
    /\ pxSent' = None
    /\ pxResp' = None
    /\ pxOut' = None

AuthuiPaths == {<<"login">>, <<"consent">>}

\* /authui/{path}: forward, filter the headers
proxy_authui ==
    /\ pxPc = "idle"
    /\ \E method \in Methods, path \in AuthuiPaths,
          names \in SUBSET ReqHeaderNames,
          rnames \in SUBSET RespHeaderNames,
          status \in Statuses, encoding \in ContentEncodings,
          location \in {None} \cup {Some(l) : l \in Locations} :
         LET req_headers == [k \in names |-> HeaderValue]
             fwd_headers == filter_headers(req_headers, RequestHopByHop)
             resp_headers == upstream_headers(rnames, location, encoding)
         IN  /\ pxReq' = Some([route |-> "authui", method |-> method,
                               path |-> path, headers |-> req_headers])
             /\ pxSent' = Some([method |-> method,
                                url |-> LoginConsentInternal \o <<"/">> \o path,
                                headers |-> fwd_headers,
                                follow_redirects |-> FALSE])
             /\ pxResp' = Some([status_code |-> status,
                                headers |-> resp_headers,
                                content |-> Wire(encoding)])
             /\ pxOut' = Some([status_code |-> status,
                               headers |-> filter_headers(resp_headers,
                                                          ResponseHopByHop),
                               content |-> resp_content(Wire(encoding))])
    /\ pxPc' = "done"

\* the response has gone to the caller; the call's locals are gone
proxy_authui_return ==
    /\ pxPc = "done"
    /\ pxReq[1].route = "authui"
    /\ pxPc' = "idle"
    /\ pxReq' = None
    /\ pxSent' = None
    /\ pxResp' = None
    /\ pxOut' = None

InitProxy ==
    /\ pxPc = "idle"
    /\ pxReq = None
    /\ pxSent = None
    /\ pxResp = None
    /\ pxOut = None

\* -------------------------------------------------------- specifications
\* a component at rest while another one runs
RestM2M == InitM2M /\ gateApiKey = ""

InitSpecPkce ==
    /\ InitPkce
    /\ InitProxy
    /\ clock = 0
    /\ RestM2M
    /\ InitVerify
    /\ InitRefresh

NextPkce ==
    \/ oauth_login /\ UNCHANGED <<m2mVars, verVars, pxVars, rfVars>>
    \/ \E t \in Threads : oauth_callback_pop(t) /\ UNCHANGED <<clock, m2mVars, verVars, pxVars, rfVars>>
    \/ \E t \in Threads : oauth_callback_post(t) /\ UNCHANGED <<clock, m2mVars, verVars, pxVars, rfVars>>
    \/ \E t \in Threads :
          oauth_callback_response(t) /\ UNCHANGED <<clock, m2mVars, verVars, pxVars, rfVars>>
    \/ \E t \in Threads :
          oauth_callback_return(t) /\ UNCHANGED <<clock, m2mVars, verVars, pxVars, rfVars>>

SpecPkce == InitSpecPkce /\ [][NextPkce]_vars

InitSpecM2M ==
    /\ InitPkce
    /\ InitProxy
    /\ clock = 0
    /\ InitM2M
    /\ InitVerify
    /\ InitRefresh

NextM2M ==
    \/ broker_m2m_token /\ UNCHANGED <<pkceVars, clock, verVars, pxVars, rfVars>>
    \/ broker_m2m_response /\ UNCHANGED <<pkceVars, clock, verVars, pxVars, rfVars>>
    \/ broker_m2m_return /\ UNCHANGED <<pkceVars, clock, verVars, pxVars, rfVars>>

SpecM2M == InitSpecM2M /\ [][NextM2M]_vars

\* the broker with its registry in the file at GATE_CLIENTS_FILE
\* (GATE_CLIENTS_JSON unset), and the file changing under it
InitSpecRegistry ==
    /\ InitPkce
    /\ InitProxy
    /\ clock = 0
    /\ gateApiKey \in {"", "key1"}
    /\ clientsEnv = None
    /\ clientsFile = Some(GATE_CLIENTS_JSON)
    /\ IdleM2M
    /\ InitVerify
    /\ InitRefresh

NextRegistry ==
    \/ NextM2M
    \/ clients_file_replaced /\ UNCHANGED <<pkceVars, clock, verVars, pxVars, rfVars>>

SpecRegistry == InitSpecRegistry /\ [][NextRegistry]_vars

InitSpecVerify ==
    /\ InitPkce
    /\ InitProxy
    /\ clock = 0
    /\ RestM2M
    /\ InitVerify
    /\ InitRefresh

NextVerify ==
    \/ \E t \in Threads :
          verify_bearer_begin(t) /\ UNCHANGED <<pkceVars, clock, m2mVars, pxVars, rfVars>>
    \/ \E t \in Threads : jwks_get(t) /\ UNCHANGED <<pkceVars, clock, m2mVars, pxVars, rfVars>>
    \/ \E t \in Threads : jwks_store(t) /\ UNCHANGED <<pkceVars, clock, m2mVars, pxVars, rfVars>>
    \/ \E t \in Threads :
          jwks_cache_clear(t) /\ UNCHANGED <<pkceVars, clock, m2mVars, pxVars, rfVars>>
    \/ \E t \in Threads : jwks_reload(t) /\ UNCHANGED <<pkceVars, clock, m2mVars, pxVars, rfVars>>
    \/ \E t \in Threads :
          verify_bearer_return(t) /\ UNCHANGED <<pkceVars, clock, m2mVars, pxVars, rfVars>>
    \/ rotate_keys /\ UNCHANGED <<pkceVars, clock, m2mVars, pxVars, rfVars>>
    \/ Tick /\ UNCHANGED <<pkceVars, m2mVars, verVars, pxVars, rfVars>>

SpecVerify == InitSpecVerify /\ [][NextVerify]_vars

\* the verifier with its calls one after the other: a call begins while
\* the other workers are idle
OthersIdle(t) == \A u \in Threads \ {t} : vb[u].pc = "idle"

NextVerifySerial ==
    \/ \E t \in Threads :
          OthersIdle(t) /\ verify_bearer_begin(t)
          /\ UNCHANGED <<pkceVars, clock, m2mVars, pxVars, rfVars>>
    \/ \E t \in Threads : jwks_get(t) /\ UNCHANGED <<pkceVars, clock, m2mVars, pxVars, rfVars>>
    \/ \E t \in Threads : jwks_store(t) /\ UNCHANGED <<pkceVars, clock, m2mVars, pxVars, rfVars>>
    \/ \E t \in Threads :
          jwks_cache_clear(t) /\ UNCHANGED <<pkceVars, clock, m2mVars, pxVars, rfVars>>
    \/ \E t \in Threads : jwks_reload(t) /\ UNCHANGED <<pkceVars, clock, m2mVars, pxVars, rfVars>>
    \/ \E t \in Threads :
          verify_bearer_return(t) /\ UNCHANGED <<pkceVars, clock, m2mVars, pxVars, rfVars>>
    \/ rotate_keys /\ UNCHANGED <<pkceVars, clock, m2mVars, pxVars, rfVars>>
    \/ Tick /\ UNCHANGED <<pkceVars, m2mVars, verVars, pxVars, rfVars>>

SpecVerifySerial == InitSpecVerify /\ [][NextVerifySerial]_vars

InitSpecProxy ==
    /\ InitPkce
    /\ InitProxy
    /\ clock = 0
    /\ RestM2M
    /\ InitVerify
    /\ InitRefresh

NextProxy ==
    \/ proxy_oauth2 /\ UNCHANGED <<pkceVars, clock, m2mVars, verVars, rfVars>>
    \/ proxy_oauth2_return /\ UNCHANGED <<pkceVars, clock, m2mVars, verVars, rfVars>>
    \/ proxy_authui /\ UNCHANGED <<pkceVars, clock, m2mVars, verVars, rfVars>>
    \/ proxy_authui_return /\ UNCHANGED <<pkceVars, clock, m2mVars, verVars, rfVars>>

SpecProxy == InitSpecProxy /\ [][NextProxy]_vars

InitSpecRefresh ==
    /\ InitPkce
    /\ InitProxy
    /\ clock = 0
    /\ RestM2M
    /\ InitVerify
    /\ InitRefresh

NextRefresh ==
    \/ \E t \in Threads :
          oauth_refresh(t) /\ UNCHANGED <<pkceVars, clock, m2mVars, verVars, pxVars>>
    \/ \E t \in Threads :
          oauth_refresh_response(t)
          /\ UNCHANGED <<pkceVars, clock, m2mVars, verVars, pxVars>>
    \/ \E t \in Threads :
          oauth_refresh_return(t)
          /\ UNCHANGED <<pkceVars, clock, m2mVars, verVars, pxVars>>

SpecRefresh == InitSpecRefresh /\ [][NextRefresh]_vars

\* the three routes that post to the token endpoint.  They share no state,
\* so each is run while the other two are at rest.
InitSpecTokenRoutes ==
    /\ InitPkce
    /\ InitProxy
    /\ clock = 0
    /\ InitM2M
    /\ InitVerify
    /\ InitRefresh

\* GATE_API_KEY bears on the broker alone: the other two routes are run
\* with it unset
NextTokenRoutes ==
    \/ InitPkce /\ InitRefresh /\ NextM2M
    \/ InitPkce /\ m2mPc = "idle" /\ gateApiKey = "" /\ NextRefresh
    \/ InitRefresh /\ m2mPc = "idle" /\ gateApiKey = "" /\ NextPkce

SpecTokenRoutes == InitSpecTokenRoutes /\ [][NextTokenRoutes]_vars

\* the routes that answer a browser: the login redirect and the two proxies
InitSpecBrowser ==
    /\ InitPkce
    /\ InitProxy
    /\ clock = 0
    /\ RestM2M
    /\ InitVerify
    /\ InitRefresh

NextBrowser ==
    \/ oauth_login /\ UNCHANGED <<m2mVars, verVars, pxVars, rfVars>>
    \/ NextProxy

SpecBrowser == InitSpecBrowser /\ [][NextBrowser]_vars

\* ------------------------------------------------------ claims: PKCE flow
UrlAlphabet ==
    <<"A","B","C","D","E","F","G","H","I","J","K","L","M",
      "N","O","P","Q","R","S","T","U","V","W","X","Y","Z",
      "a","b","c","d","e","f","g","h","i","j","k","l","m",
      "n","o","p","q","r","s","t","u","v","w","x","y","z",
      "0","1","2","3","4","5","6","7","8","9","-","_">>

\* bit n (from 0, most significant first) of a byte string, 0 past its end
BitAt(data, n) ==
    IF n \div 8 < Len(data)
    THEN (data[(n \div 8) + 1] \div (2 ^ (7 - (n % 8)))) % 2
    ELSE 0

\* RFC 4648 section 5 without padding: the bit string cut into sextets
Base64UrlNoPad(data) ==
    [j \in 1..((8 * Len(data) + 5) \div 6) |->
        UrlAlphabet[ 32 * BitAt(data, 6 * (j - 1))
                   + 16 * BitAt(data, 6 * (j - 1) + 1)
                   + 8 * BitAt(data, 6 * (j - 1) + 2)
                   + 4 * BitAt(data, 6 * (j - 1) + 3)
                   + 2 * BitAt(data, 6 * (j - 1) + 4)
                   + BitAt(data, 6 * (j - 1) + 5) + 1]]

\* the challenge RFC 7636 prescribes for each verifier the logins draw
S256Challenge ==
    [v \in Verifiers |-> Base64UrlNoPad(sha256(encode_ascii(v)))]

\* the calls of a thread that did not obtain a verifier
CallbackRefused(t) == cbReq[t] # None /\ cbSt[t] = None

\* C1: for every state token, no more callbacks obtain its verifier than
\* logins issued it (none for a state never issued), and every callback
\* that did not obtain one ended with 400 "Invalid or expired state"
\* without posting to the token endpoint.
C1_StateConsumedAtMostOnce ==
    /\ \A s \in CallbackStates : consumed[s] <= issued[s]
    /\ consumed[ForgedState] = 0
    /\ \A t \in Threads :
         CallbackRefused(t) =>
            /\ cbPc[t] = "done"
            /\ cbOut[t] # None
            /\ cbOut[t][1].status = 400
            /\ cbOut[t][1].detail = "Invalid or expired state"
            /\ ~cbPosted[t]
            /\ cbData[t] = None

\* a state issued once, obtained by one callback and refused to another
C1_Witness ==
    \E t1, t2 \in Threads :
        /\ t1 # t2
        /\ cbReq[t1] # None /\ cbReq[t2] # None
        /\ cbReq[t1][1].state = cbReq[t2][1].state
        /\ issued[cbReq[t1][1].state] = 1
        /\ cbSt[t1] # None /\ cbPosted[t1]
        /\ CallbackRefused(t2)
        /\ cbOut[t2][1].status = 400

\* C2: the redirect of every login carries response_type=code,
\* code_challenge_method=S256 and, as code_challenge, the unpadded base64url
\* of the SHA-256 of the verifier the store holds under the redirect's state.
C2_ChallengeMatchesStoredVerifier ==
    [][loginCount' # loginCount =>
        LET r == redirect'[1]
        IN  /\ r.state \in DOMAIN _STATE'
            /\ r.code_challenge = S256Challenge[_STATE'[r.state][1]]
            /\ r.response_type = "code"
            /\ r.code_challenge_method = "S256"]_vars

\* a login has redirected with a 43 character challenge for a stored state
C2_Witness ==
    /\ loginCount > 0
    /\ redirect # None
    /\ redirect[1].state \in DOMAIN _STATE
    /\ Len(redirect[1].code_challenge) = 43
    /\ Len(_STATE[redirect[1].state][1]) = 43

\* ------------------------------------------------------- claims: M2M broker
\* the elements of a list that are in a set, in the list's order
RECURSIVE KeepAllowed(_, _)
KeepAllowed(list, allowedSet) ==
    IF list = <<>> THEN <<>>
    ELSE (IF Head(list) \in allowedSet THEN <<Head(list)>> ELSE <<>>)
         \o KeepAllowed(Tail(list), allowedSet)

\* the call passed validation, the API key guard and the registry checks
CallReachesScopes ==
    /\ m2mReq # None
    /\ m2mReq[1].body.valid
    /\ (gateApiKey = "" \/ m2mReq[1].x_api_key = gateApiKey)
    /\ m2mReq[1].body.client \in DOMAIN GATE_CLIENTS_JSON
    /\ {"id", "secret"} \subseteq DOMAIN GATE_CLIENTS_JSON[m2mReq[1].body.client]

CallEntry == GATE_CLIENTS_JSON[m2mReq[1].body.client]

CallAllowed ==
    IF "allowed_scopes" \in DOMAIN CallEntry
    THEN {CallEntry.allowed_scopes[i] : i \in DOMAIN CallEntry.allowed_scopes}
    ELSE {}

\* the requested scope string split on blanks, or the default scope's split
CallResolved ==
    IF m2mReq[1].body.scope # None THEN split(m2mReq[1].body.scope[1])
    ELSE IF "default_scope" \in DOMAIN CallEntry
    THEN split(CallEntry.default_scope)
    ELSE <<>>

ReadWriteDelete == <<"read", SP, "write", SP, "delete">>

\* C3: with a non-empty allow-list, the scope posted to the token endpoint
\* is the resolved list without the elements outside the allow-list, in the
\* resolved order, joined by blanks; allowed {read, write} and the request
\* "read write delete" post "read write" and raise no error.
C3_PostedScopeIsClampedList ==
    /\ (CallReachesScopes /\ CallAllowed # {} /\ m2mData # None) =>
          m2mData[1].scope =
             Some(join(<<SP>>, KeepAllowed(CallResolved, CallAllowed)))
    /\ (CallReachesScopes /\ m2mReq[1].body.client = "sacred"
            /\ m2mReq[1].body.scope = Some(ReadWriteDelete)) =>
          /\ m2mData # None
          /\ m2mData[1].scope = Some(<<"read", SP, "write">>)
          /\ m2mPosts = 1
          /\ (m2mPc = "done" => m2mOut[1].status # 403)

\* "read write delete" on the client allowing read and write was posted
C3_Witness ==
    /\ m2mPc = "posted"
    /\ CallReachesScopes
    /\ m2mReq[1].body.client = "sacred"
    /\ m2mReq[1].body.scope = Some(ReadWriteDelete)
    /\ m2mData[1].scope = Some(<<"read", SP, "write">>)

\* C4: with a non-empty allow-list and no resolved scope in it, the call
\* ends with 403 "requested scopes not allowed" and posts nothing; no form
\* without a scope is ever posted for a client with an allow-list.
C4_NoOverlapIsDenied ==
    /\ (CallReachesScopes /\ CallAllowed # {}
            /\ KeepAllowed(CallResolved, CallAllowed) = <<>>) =>
          /\ m2mPc = "done"
          /\ m2mOut = Some([status |-> 403,
                            detail |-> "requested scopes not allowed"])
          /\ m2mData = None
          /\ m2mPosts = 0
    /\ (CallReachesScopes /\ CallAllowed # {} /\ m2mData # None) =>
          m2mData[1].scope # None

\* "read" was requested of the client that allows only "admin"
C4_Witness ==
    /\ m2mPc = "done"
    /\ CallReachesScopes
    /\ m2mReq[1].body.client = "admin"
    /\ m2mReq[1].body.scope = Some(<<"read">>)
    /\ m2mOut[1].status = 403
    /\ m2mPosts = 0

\* C5: without an allow-list the resolved scopes are posted unclamped.
C5_NoAllowListPassesThrough ==
    (CallReachesScopes /\ CallAllowed = {} /\ CallResolved # <<>>) =>
        /\ m2mData # None
        /\ m2mData[1].scope = Some(join(<<SP>>, CallResolved))

\* --------------------------------------------------- claims: bearer verifier
\* the calls that got as far as a token
HasToken(t) ==
    /\ vb[t].auth # None
    /\ ~missing_bearer(vb[t].auth)
    /\ vb[t].auth[1].token # None

\* C6: a call whose first verification failed clears the cache once, issues
\* one JWKS refetch and retries once; a failed retry ends in 401 "invalid
\* token"; nothing more is cleared, fetched or retried.
C6_OneRefreshOneRetry ==
    \A t \in Threads :
        vb[t].firstFailed =>
            /\ vb[t].clears <= 1 /\ vb[t].regets <= 1 /\ vb[t].retries <= 1
            /\ vb[t].pc = "done" =>
                  /\ vb[t].clears = 1
                  /\ vb[t].regets = 1
                  /\ vb[t].retries = 1
                  /\ vb[t].out[1].status \in {200, 401}

\* C7: a well-formed, unexpired token of the configured issuer whose key is
\* missing from the cached set but served by the endpoint throughout the
\* call is accepted, with its claims, after one refetch.
C7_RotationRecoversAfterOneRefresh ==
    \A t \in Threads :
        (/\ vb[t].pc = "done"
         /\ HasToken(t)
         /\ vb[t].stale
         /\ vb[t].served
         /\ ~vb[t].netFail
         /\ TokenOf(vb[t]).iss = ISSUER
         /\ ~vb[t].pastExp) =>
            /\ vb[t].out[1].status = 200
            /\ vb[t].out[1].claims = Some(TokenOf(vb[t]))
            /\ vb[t].clears = 1
            /\ vb[t].regets = 1

\* C8: a token whose signature verifies and whose iss is not the configured
\* issuer is refused with 401 "bad issuer" and no claims.
C8_BadIssuerRefused ==
    \A t \in Threads :
        (/\ vb[t].pc = "done"
         /\ HasToken(t)
         /\ vb[t].sigOk
         /\ TokenOf(vb[t]).iss # ISSUER) =>
            vb[t].out = Some([status |-> 401, detail |-> "bad issuer",
                              claims |-> None])

\* C9: a token whose signature verifies, whose iss is the configured issuer
\* and whose exp lies in the past is refused with 401 "expired".
C9_ExpiredRefused ==
    \A t \in Threads :
        (/\ vb[t].pc = "done"
         /\ HasToken(t)
         /\ vb[t].sigOk
         /\ TokenOf(vb[t]).iss = ISSUER
         /\ vb[t].pastExp) =>
            vb[t].out = Some([status |-> 401, detail |-> "expired",
                              claims |-> None])

\* ------------------------------------------------------------ claims: proxy
\* C10: an upstream Location that starts with the authorization server's
\* internal address comes back as the gateway base followed by the
\* original path and query, nothing else changed.
C10_InternalPrefixBecomesGatewayBase ==
    (/\ pxPc = "done"
     /\ "location" \in DOMAIN pxResp[1].headers
     /\ startswith(pxResp[1].headers["location"], HydraInternal)) =>
        /\ "location" \in DOMAIN pxOut[1].headers
        /\ pxOut[1].headers["location"] =
              GATE_BASE_URL
              \o SubSeq(pxResp[1].headers["location"],
                        Len(HydraInternal) + 1,
                        Len(pxResp[1].headers["location"]))

\* a Location value that begins with an internal upstream address
InternalLocation(loc) ==
    startswith(loc, HydraInternal) \/ startswith(loc, LoginConsentInternal)

\* C11: neither the login redirect nor a response of the two proxy routes
\* carries a Location that begins with the internal base URL of the
\* authorization server or of the login/consent service.
C11_NoInternalLocationReturned ==
    /\ redirect # None => ~InternalLocation(redirect[1].url)
    /\ (pxOut # None /\ "location" \in DOMAIN pxOut[1].headers) =>
          ~InternalLocation(pxOut[1].headers["location"])

\* the header names the proxy is to strip in both directions
HopByHopNames ==
    {"connection", "keep-alive", "proxy-authenticate", "proxy-authorization",
     "te", "trailer", "transfer-encoding", "upgrade", "host"}

\* C12: of connection, keep-alive, proxy-authenticate, proxy-authorization,
\* te, trailer, transfer-encoding, upgrade and host, in any letter case, none
\* is in the request a proxy route sends upstream and none is in the
\* response it returns.
C12_HopByHopNeverRelayed ==
    pxPc = "done" =>
        /\ \A k \in DOMAIN pxSent[1].headers :
              header_lower(k) \notin HopByHopNames
        /\ \A k \in DOMAIN pxOut[1].headers :
              header_lower(k) \notin HopByHopNames

\* ---------------------------------------------- claims: failures and secrets
\* the registry with another secret for a client that has one
WithSecret(registry, client, secret) ==
    IF client \in DOMAIN registry /\ "secret" \in DOMAIN registry[client]
       /\ registry[client].secret # ""
    THEN [registry EXCEPT ![client] = [@ EXCEPT !.secret = secret]]
    ELSE registry

\* the response of broker_m2m_token to a request, given the registry and
\* what the token endpoint does if the call gets as far as posting
broker_outcome(registry, req, GATE_API_KEY, resp) ==
    IF ~req.body.valid
    THEN [status |-> 422, detail |-> "validation error"]
    ELSE LET prep == broker_prepare(registry, req.body, req.x_api_key,
                                    GATE_API_KEY)
         IN  IF prep.error # None THEN prep.error[1]
             ELSE broker_result(prep.data[1], resp[1])

\* the secrets a registry entry may be configured with, and the values of
\* OAUTH_CLIENT_SECRET (None when unset)
RegistrySecrets == {"sacred-secret", "rotated-secret"}
ClientSecrets == {None, Some("browser-secret"), Some("rotated-secret")}

\* C13: a failing broker, callback or refresh call returns the same status
\* and body whatever client secret is configured, the request and what the
\* token endpoint does with the post being the same.
C13_FailureIndependentOfSecret ==
    /\ (m2mPc = "done" /\ m2mOut[1].status # 200) =>
          \A secret \in RegistrySecrets :
             broker_outcome(WithSecret(load_client_registry,
                                       m2mReq[1].body.client, secret),
                            m2mReq[1], gateApiKey, m2mResp) = m2mOut[1]
    /\ \A t \in Threads :
          cbPc[t] = "posted" =>
             \A secret \in ClientSecrets, answer \in UpstreamAnswers :
                LET post == [cbData[t][1] EXCEPT
                                !.auth = basic_auth(CLIENT_ID, secret)]
                IN  (answer.kind # "ok" =>
                        callback_result(post, answer)
                           = callback_result(cbData[t][1], answer))
    /\ \A t \in Threads :
          rfPc[t] = "posted" =>
             \A secret \in ClientSecrets, answer \in UpstreamAnswers :
                LET post == [rfData[t][1] EXCEPT
                                !.auth = basic_auth(CLIENT_ID, secret)]
                IN  (answer.kind # "ok" =>
                        refresh_result(post, answer)
                           = refresh_result(rfData[t][1], answer))

\* the broker posted a form with a client secret and answered 502
C13_Witness ==
    /\ m2mPc = "done"
    /\ m2mData # None
    /\ m2mData[1].client_secret = "sacred-secret"
    /\ m2mResp # None
    /\ m2mResp[1].kind = "unreachable"
    /\ m2mOut[1].status = 502

\* C14: when the token endpoint answers the broker's post with an HTTP
\* error status, the call fails with that status and that body, after one
\* post.
C14_UpstreamErrorPropagated ==
    (m2mPc = "done" /\ m2mResp # None /\ m2mResp[1].kind = "error") =>
        /\ m2mOut = Some([status |-> m2mResp[1].status,
                          detail |-> m2mResp[1].body])
        /\ m2mPosts = 1

\* the token endpoint answered 500 "server_error" and the broker said so
C14_Witness ==
    /\ m2mPc = "done"
    /\ m2mResp # None
    /\ m2mResp[1].kind = "error"
    /\ m2mResp[1].status = 500
    /\ m2mOut[1].status = 500
    /\ m2mOut[1].detail = "server_error"

\* C15: when the broker's post fails at the network level the call fails
\* with 502, a response that no answer of the token endpoint (a rejection
\* or a token) produces, after one post.
C15_UnreachableIs502 ==
    (m2mPc = "done" /\ m2mResp # None /\ m2mResp[1].kind = "unreachable") =>
        /\ m2mOut[1].status = 502
        /\ m2mPosts = 1
        /\ \A answer \in UpstreamAnswers :
              answer.kind # "unreachable" =>
                 broker_result(m2mData[1], answer) # m2mOut[1]

\* the post timed out and the broker answered 502
C15_Witness ==
    /\ m2mPc = "done"
    /\ m2mResp # None
    /\ m2mResp[1].kind = "unreachable"
    /\ m2mOut[1].status = 502
    /\ m2mPosts = 1

\* the request passed validation and the API key guard
CallAuthorised ==
    /\ m2mReq # None
    /\ m2mReq[1].body.valid
    /\ (gateApiKey = "" \/ m2mReq[1].x_api_key = gateApiKey)

\* C16: a broker call naming a client the registry has no entry for ends
\* with 400 "unknown client", whatever scope and audience it asks for, and
\* posts nothing to the token endpoint.
C16_UnknownClientIs400 ==
    (CallAuthorised
        /\ m2mReq[1].body.client \notin DOMAIN load_client_registry) =>
        /\ m2mPc = "done"
        /\ m2mOut = Some([status |-> 400, detail |-> "unknown client"])
        /\ m2mData = None
        /\ m2mPosts = 0
        /\ m2mResp = None

\* an unregistered client asked for a scope and an audience
C16_Witness ==
    /\ m2mPc = "done"
    /\ CallAuthorised
    /\ m2mReq[1].body.client = "ghost"
    /\ m2mReq[1].body.scope = Some(<<"read">>)
    /\ m2mReq[1].body.audience = "req-aud"
    /\ m2mOut[1].status = 400

\* the named client has a registry entry without a usable id or secret
EntryLacksCredentials ==
    /\ m2mReq[1].body.client \in DOMAIN load_client_registry
    /\ LET entry == load_client_registry[m2mReq[1].body.client]
       IN get_str(entry, "id") = "" \/ get_str(entry, "secret") = ""

\* C17: a broker call naming a client whose registry entry has no id or no
\* secret ends with 500 "client misconfigured", whatever scope it asks for
\* and whatever else the entry holds, and posts nothing to the token
\* endpoint.
C17_MisconfiguredClientIs500 ==
    (CallAuthorised /\ EntryLacksCredentials) =>
        /\ m2mPc = "done"
        /\ m2mOut = Some([status |-> 500,
                          detail |-> "client misconfigured (no id/secret)"])
        /\ m2mData = None
        /\ m2mPosts = 0

\* C18: when the token endpoint rejects the authorization-code exchange,
\* the failure the callback answers with carries the status code and the
\* response body of the upstream answer.
C18_CallbackCarriesUpstreamFailure ==
    \A t \in Threads :
        (cbPc[t] = "done" /\ cbResp[t] # None /\ cbResp[t][1].kind = "error") =>
            /\ cbOut[t][1].status = cbResp[t][1].status
            /\ cbOut[t][1].body = cbResp[t][1].body

\* C19: a refresh with an empty refresh_token ends with 400 "Missing
\* refresh_token" and no post; with a non-empty one it posts one
\* refresh_token grant, answers with the upstream payload when the grant
\* succeeds, and answers with the upstream's status and body when the
\* upstream answers with an HTTP error.
C19_RefreshOutcomes ==
    \A t \in Threads :
        rfPc[t] = "done" =>
            IF rfReq[t][1] = ""
            THEN /\ rfOut[t][1].status = 400
                 /\ rfOut[t][1].detail = "Missing refresh_token"
                 /\ rfPosts[t] = 0
            ELSE /\ rfPosts[t] = 1
                 /\ rfData[t][1].grant_type = "refresh_token"
                 /\ rfData[t][1].refresh_token = rfReq[t][1]
                 /\ (rfResp[t][1].kind = "ok" =>
                        /\ rfOut[t][1].status = 200
                        /\ rfOut[t][1].body = rfResp[t][1].body)
                 /\ (rfResp[t][1].kind = "error" =>
                        /\ rfOut[t][1].status = rfResp[t][1].status
                        /\ rfOut[t][1].body = rfResp[t][1].body)

\* C20: an entry the callback popped is never put back. Every entry that
\* appears in the store is written by a login, with a creation time later
\* than that of every entry before it; the steps of a callback after its
\* pop (the post, the answer of the token endpoint whether it is a payload,
\* a rejection or a network failure, and the return, whether or not the
\* caller still waits for the response) leave the store as it is; the
\* popped state is absent after the pop; and a callback whose state is
\* absent ends with 400 "Invalid or expired state".
C20_PoppedEntryNeverRestored ==
    [][/\ \A s \in CallbackStates :
            (s \in DOMAIN _STATE'
                /\ (s \notin DOMAIN _STATE \/ _STATE'[s] # _STATE[s])) =>
                /\ loginCount' = loginCount + 1
                /\ redirect'[1].state = s
                /\ _STATE'[s][2] = clock'
                /\ clock' > clock
       /\ \A t \in Threads :
            /\ (cbPc[t] # "idle" /\ cbPc'[t] # cbPc[t]) => _STATE' = _STATE
            /\ (cbPc[t] = "idle" /\ cbPc'[t] = "popped") =>
                  cbReq'[t][1].state \notin DOMAIN _STATE'
            /\ (cbPc[t] = "idle" /\ cbPc'[t] # "idle"
                    /\ cbReq'[t][1].state \notin DOMAIN _STATE) =>
                  /\ cbPc'[t] = "done"
                  /\ cbOut'[t] = Some([status |-> 400,
                                       detail |-> "Invalid or expired state",
                                       body |-> ""])
                  /\ _STATE' = _STATE]_vars

\* the one callback that obtained a state's verifier had its exchange fail,
\* the state is absent, and another callback with that state was refused
C20_Witness ==
    \E s \in StateTokens, t1, t2 \in Threads :
        /\ t1 # t2
        /\ issued[s] = 1 /\ consumed[s] = 1
        /\ \A o \in CallbackStates : o # s => consumed[o] = 0
        /\ s \notin DOMAIN _STATE
        /\ cbPc[t1] = "done"
        /\ cbResp[t1] # None
        /\ cbResp[t1][1].kind \in {"error", "unreachable"}
        /\ cbOut[t1][1].status # 200
        /\ cbReq[t2] # None /\ cbReq[t2][1].state = s
        /\ CallbackRefused(t2)
        /\ cbOut[t2][1].detail = "Invalid or expired state"

\* ------------------------------------------- claims: verifier, registry, errors
\* the call has sent its request to the JWKS endpoint and waits for it
FetchInFlight(t) == vb[t].pc \in {"get1", "get2"}

\* C21: at most one request to the JWKS endpoint is in flight at a time:
\* calls that find the cache empty or just cleared while another call
\* fetches do not fetch themselves.
C21_OneFetchInFlight ==
    Cardinality({t \in Threads : FetchInFlight(t)}) <= 1

\* C22: every verify_bearer call ends with the decoded claims or with a
\* 401, for every Authorization header and every behaviour of the JWKS
\* endpoint: no other status, no exception that escapes.
C22_FailuresAre401 ==
    \A t \in Threads :
        vb[t].pc = "done" =>
            \/ /\ vb[t].out[1].status = 200
               /\ vb[t].out[1].claims # None
            \/ /\ vb[t].out[1].status = 401
               /\ vb[t].out[1].claims = None

\* the header is absent, or does not begin with "bearer " in any letter case
NoBearerPrefix(h) ==
    \/ h = None
    \/ h[1].scheme \notin {"Bearer", "bearer", "BEARER"}
    \/ ~h[1].sep

\* C23: a call whose Authorization header is absent or does not begin with
\* "Bearer " in any letter case ends at once with 401 "Missing bearer
\* token": it issues no JWKS fetch, clears nothing and leaves the JWKS
\* cache as it was.
C23_NoBearerPrefixIs401 ==
    [][\A t \in Threads :
          (vb[t].pc = "idle" /\ vb'[t].pc # "idle"
              /\ NoBearerPrefix(vb'[t].auth)) =>
              /\ vb'[t].pc = "done"
              /\ vb'[t].out = Some([status |-> 401,
                                    detail |-> "Missing bearer token",
                                    claims |-> None])
              /\ vb'[t].gets = 0
              /\ vb'[t].clears = 0
              /\ jwksCache' = jwksCache]_vars

\* a Basic header was refused while the cache held a key set
C23_Witness ==
    \E t \in Threads :
        /\ vb[t].pc = "done"
        /\ vb[t].auth # None
        /\ vb[t].auth[1].scheme = "Basic"
        /\ vb[t].out[1].detail = "Missing bearer token"
        /\ vb[t].gets = 0
        /\ jwksCache # None

\* the registry the process found when it started: what the file held
StartRegistry == GATE_CLIENTS_JSON

\* C24: the registry is loaded once, when the process starts: every broker
\* call resolves its client name against the registry of that moment,
\* whatever has become of the registry's source since, so its form and
\* its failures before the post are those the start registry gives.
C24_RegistryLoadedOnce ==
    (m2mPc # "idle" /\ m2mReq[1].body.valid) =>
        LET prep == broker_prepare(StartRegistry, m2mReq[1].body,
                                   m2mReq[1].x_api_key, gateApiKey)
        IN  /\ m2mData = prep.data
            /\ prep.error # None => m2mOut = prep.error

\* the answers with which the token endpoint rejects a post
Rejections == {a \in UpstreamAnswers : a.kind = "error"}

\* C25: when the post of a callback or of a refresh fails at the network
\* level, the call ends with a 502, which is not a success and is not what
\* any rejection by the token endpoint produces.
C25_NetworkFailureIs502 ==
    \A t \in Threads :
        /\ (cbPc[t] = "done" /\ cbResp[t] # None
                /\ cbResp[t][1].kind = "unreachable") =>
              /\ cbOut[t][1].status = 502
              /\ \A a \in Rejections : cbOut[t][1] # callback_result(None, a)
        /\ (rfPc[t] = "done" /\ rfResp[t] # None
                /\ rfResp[t][1].kind = "unreachable") =>
              /\ rfOut[t][1].status = 502
              /\ \A a \in Rejections : rfOut[t][1] # refresh_result(None, a)

\* C26: the proxy does not follow redirects and returns what the upstream
\* answered: the same status code (a 3xx stays that 3xx), the same body,
\* every response header that is neither hop-by-hop nor Location with its
\* value, and a Location that begins with no internal prefix as it came.
C26_ResponseReturnedUnchanged ==
    pxPc = "done" =>
        LET resp == pxResp[1]
            out == pxOut[1]
        IN  /\ ~pxSent[1].follow_redirects
            /\ out.status_code = resp.status_code
            /\ out.content = resp.content
            /\ \A k \in DOMAIN resp.headers :
                  (header_lower(k) \notin HopByHopNames /\ k # "location") =>
                      /\ k \in DOMAIN out.headers
                      /\ out.headers[k] = resp.headers[k]
            /\ ("location" \in DOMAIN resp.headers
                    /\ ~InternalLocation(resp.headers["location"])) =>
                      /\ "location" \in DOMAIN out.headers
                      /\ out.headers["location"] = resp.headers["location"]

\* C27: the JWKS endpoint is fetched only on an empty cache, by a call's
\* first lookup or by its lookup right after a failed verification and the
\* clear that follows it.  A call that finds the cache populated and
\* verifies its token against it ends without a fetch and leaves the cache
\* as it was, and the passing of time changes neither the cache nor a call.
C27_RefreshOnlyOnFailure ==
    [][/\ \A t \in Threads :
            /\ (vb[t].pc = "idle" /\ vb'[t].pc # "idle" /\ jwksCache # None
                    /\ ~vb'[t].firstFailed) =>
                  /\ vb'[t].pc = "done"
                  /\ vb'[t].gets = 0
                  /\ jwksCache' = jwksCache
            /\ vb'[t].gets > vb[t].gets =>
                  /\ jwksCache = None
                  /\ \/ vb[t].pc = "idle"
                     \/ /\ vb[t].pc = "reload"
                        /\ vb[t].firstFailed
                        /\ vb[t].clears = 1
       /\ clock' # clock => (jwksCache' = jwksCache /\ vb' = vb)]_vars

\* a token was accepted from the populated cache, without a fetch, after
\* time had passed
C27_Witness ==
    \E t \in Threads :
        /\ vb[t].pc = "done"
        /\ vb[t].out[1].status = 200
        /\ vb[t].gets = 0
        /\ jwksCache # None
        /\ clock > 0

C29_ClearOnlyOnUnknownKey ==
    \A t \in Threads :
        (vb[t].pc # "idle" /\ ~vb[t].stale) =>
            /\ vb[t].pc \notin {"clear", "reload", "get2", "got2"}
            /\ vb[t].clears = 0
            /\ vb[t].regets = 0

\* C30: the JWKS cache is empty or holds the key set the most recent
\* successful fetch returned.  A fetch that fails stores nothing, so after
\* a clear and a failed refetch the cache is empty and the next call
\* fetches again.
C30_CacheHoldsLastFetch ==
    jwksCache = None \/ jwksCache = jwksFetched

====
